---- MODULE Spec2Model ----
(***************************************************************************)
(* One POST request to api/prompt.py (handler.do_POST): parsing, client    *)
(* initialisation from the environment, the three upstream calls (embed,   *)
(* vector query, chat completion), prompt construction, the response       *)
(* payload and the writes that _send_json makes to the connection.         *)
(*                                                                         *)
(* Text is modelled as follows.  The question is a sequence of characters  *)
(* so that str.strip() is computed.  Fixed texts (messages, prompts) are   *)
(* strings.  An f-string is the record of its rendered fields.  Values     *)
(* that Python may hold as None are tagged records [t, v].                 *)
(***************************************************************************)
EXTENDS Integers, Sequences, FiniteSets, TLC

VARIABLES
    env,            \* the four module-level values read by os.environ.get
    request,        \* the inbound request: Content-Length header kind, body
    pc,             \* position of do_POST
    question,       \* the stripped question (local of do_POST)
    q_vec,          \* embedding returned by embed_query
    res,            \* raw result of index.query
    query_top_k,    \* top_k argument of the index.query call made (0: none)
    matches,        \* res.get("matches", [])
    user_prompt,    \* build_user_prompt(question, matches)
    chat_messages,  \* messages argument of the chat completion call made
    answer,         \* resp.choices[0].message.content
    calls,          \* upstream calls made so far: <<[svc, ok]>>
    upstream_exc,   \* exceptions raised by upstream calls: <<[svc, text]>>
    pending,        \* arguments of the _send_json call about to run
    inExcept,       \* TRUE when that call is made from an except clause
    sent,           \* the _send_json calls made: <<[status, payload]>>
    wire_status,    \* status lines written to the connection
    wire_body,      \* bodies written to the connection
    escaped         \* an exception left do_POST

vars == <<env, request, pc, question, q_vec, res, query_top_k, matches,
          user_prompt, chat_messages, answer, calls, upstream_exc, pending,
          inExcept, sent, wire_status, wire_body, escaped>>

-----------------------------------------------------------------------------
(* Bounds of the model *)

\* longest question string in a request body
MaxStrLen == 2
\* longest arbitrary match list the vector service returns
MaxShort == 2
\* longest ranked list the vector service returns (it may exceed top_k)
MaxReturned == 11

-----------------------------------------------------------------------------
(* Program constants *)

TOP_K == 10

SYSTEM_PROMPT == "You are a TED Talk assistant that answers questions strictly and only based on the TED dataset context provided to you ..."

MissingQuestionMsg == "Missing 'question' field"
InvalidJsonMsg == "Invalid JSON"
MissingLlmodMsg == "Missing LLMOD_API_KEY or LLMOD_BASE_URL environment variables."
MissingPineconeMsg == "Missing PINECONE_API_KEY or PINECONE_INDEX_NAME environment variables."

-----------------------------------------------------------------------------
(* Python values that may be None *)

PyStr(v) == [t |-> "str", v |-> v]
PyNum(repr) == [t |-> "num", v |-> repr]
PyNone == [t |-> "NoneType", v |-> ""]
\* a key that a mapping does not hold
Absent == [t |-> "absent", v |-> ""]

\* mapping.get(key, default)
Get(mapping, key, default) ==
    IF mapping[key].t = "absent" THEN default ELSE mapping[key]

\* str(x) inside an f-string
Fmt(x) == IF x.t = "NoneType" THEN "None" ELSE x.v

\* `not X` for an environment value
EnvMissing(x) == x.t = "NoneType" \/ x.v = ""

-----------------------------------------------------------------------------
(* The request body and json.loads *)

Chars == {" ", "a"}
IsSpace(c) == c = " "

Strs == UNION {[1..n -> Chars] : n \in 0..MaxStrLen}

JStr(s) == [t |-> "str", s |-> s, n |-> 0]
JNull == [t |-> "null", s |-> <<>>, n |-> 0]
JNum(n) == [t |-> "num", s |-> <<>>, n |-> n]
JBool(b) == [t |-> "bool", s |-> <<>>, n |-> IF b THEN 1 ELSE 0]
\* a list of n elements
JList(n) == [t |-> "list", s |-> <<>>, n |-> n]

\* values the "question" key of a body may hold
QuestionValues ==
    {JStr(s) : s \in Strs}
        \cup {JNull, JNum(0), JNum(5), JBool(FALSE), JBool(TRUE), JList(0), JList(1)}

\* the parsed root of a body: an object (with or without "question") or not
DictRoot(hasQ, q) == [t |-> "dict", hasQ |-> hasQ, q |-> q]
OtherRoot(t) == [t |-> t, hasQ |-> FALSE, q |-> JNull]

\* syntax: "strict" is RFC 8259 JSON, "nan" is JSON but for a NaN/Infinity
\* literal, "malformed" is neither, "empty" is the zero-length body
Body(utf8, syntax, root) == [utf8 |-> utf8, syntax |-> syntax, root |-> root]

EmptyBody == Body(TRUE, "empty", OtherRoot("null"))

Bodies ==
    {Body(FALSE, "malformed", OtherRoot("null")),
     Body(TRUE, "malformed", OtherRoot("null")),
     EmptyBody,
     Body(TRUE, "strict", OtherRoot("list")),
     Body(TRUE, "strict", OtherRoot("null")),
     Body(TRUE, "strict", OtherRoot("str")),
     Body(TRUE, "strict", OtherRoot("num")),
     Body(TRUE, "nan", OtherRoot("float"))}
        \cup {Body(TRUE, syn, DictRoot(FALSE, JNull)) : syn \in {"strict", "nan"}}
        \cup {Body(TRUE, syn, DictRoot(TRUE, q)) :
                 syn \in {"strict", "nan"}, q \in QuestionValues}

ContentLengths == {"absent", "garbage", "exact"}

Requests == [cl : ContentLengths, body : Bodies]

\* type(x).__name__ of a parsed JSON value
PyTypeName(t) ==
    CASE t = "str" -> "str"
      [] t = "null" -> "NoneType"
      [] t = "num" -> "int"
      [] t = "float" -> "float"
      [] t = "bool" -> "bool"
      [] t = "list" -> "list"
      [] t = "dict" -> "dict"

\* bool(x) of a parsed JSON value
Truthy(x) ==
    CASE x.t = "str" -> x.s # <<>>
      [] x.t = "null" -> FALSE
      [] OTHER -> x.n # 0

RECURSIVE LStrip(_)
LStrip(s) == IF s # <<>> /\ IsSpace(Head(s)) THEN LStrip(Tail(s)) ELSE s

RECURSIVE RStrip(_)
RStrip(s) ==
    IF s # <<>> /\ IsSpace(s[Len(s)]) THEN RStrip(SubSeq(s, 1, Len(s) - 1)) ELSE s

\* str.strip()
Strip(s) == RStrip(LStrip(s))

-----------------------------------------------------------------------------
(* Exceptions *)

Exc(cls, text) == [cls |-> cls, text |-> text]

\* str(e) of the AttributeError that x.attr raises
AttributeErrorText(typeName, attr) ==
    CASE typeName = "list" /\ attr = "get" -> "'list' object has no attribute 'get'"
      [] typeName = "NoneType" /\ attr = "get" -> "'NoneType' object has no attribute 'get'"
      [] typeName = "str" /\ attr = "get" -> "'str' object has no attribute 'get'"
      [] typeName = "int" /\ attr = "get" -> "'int' object has no attribute 'get'"
      [] typeName = "float" /\ attr = "get" -> "'float' object has no attribute 'get'"
      [] typeName = "int" /\ attr = "strip" -> "'int' object has no attribute 'strip'"
      [] typeName = "bool" /\ attr = "strip" -> "'bool' object has no attribute 'strip'"
      [] typeName = "list" /\ attr = "strip" -> "'list' object has no attribute 'strip'"

ValueErrorText == "invalid literal for int() with base 10: 'abc'"
UnicodeErrorText == "'utf-8' codec can't decode byte 0xff in position 0: invalid start byte"
JsonErrorText == "Expecting value: line 1 column 1 (char 0)"
IndexErrorText == "list index out of range"
BrokenPipeText == "[Errno 32] Broken pipe"

-----------------------------------------------------------------------------
(* do_POST, lines 51-58: read, decode, parse, validate *)

\* self.rfile.read(content_length): without the header, zero bytes are read
ReadBody(req) == IF req.cl = "absent" THEN EmptyBody ELSE req.body

Raised(e) == [raised |-> TRUE, exc |-> e, question |-> <<>>]
Parsed(q) == [raised |-> FALSE, exc |-> Exc("", ""), question |-> q]

\* (data.get("question") or "").strip(), data being a dict
QuestionOf(root) ==
    LET got == IF root.hasQ THEN root.q ELSE JNull
        val == IF Truthy(got) THEN got ELSE JStr(<<>>)
    IN  IF val.t = "str"
        THEN Parsed(Strip(val.s))
        ELSE Raised(Exc("AttributeError",
                        AttributeErrorText(PyTypeName(val.t), "strip")))

\* the statements of the try block up to the question, in order
ParseQuestion(req) ==
    LET body == ReadBody(req)
    IN  IF req.cl = "garbage"
        THEN Raised(Exc("ValueError", ValueErrorText))
        ELSE IF ~body.utf8
        THEN Raised(Exc("UnicodeDecodeError", UnicodeErrorText))
        ELSE IF body.syntax \in {"malformed", "empty"}
        THEN Raised(Exc("JSONDecodeError", JsonErrorText))
        ELSE IF body.root.t # "dict"
        THEN Raised(Exc("AttributeError",
                        AttributeErrorText(PyTypeName(body.root.t), "get")))
        ELSE QuestionOf(body.root)

Response(status, payload) == [status |-> status, payload |-> payload]
ErrorPayload(text) == [error |-> text]
NoPending == Response(0, ErrorPayload(""))

\* Handle with the exception's text replaced by a fixed message
HandleGeneric(e) ==
    IF e.cls = "JSONDecodeError"
    THEN Response(400, ErrorPayload(InvalidJsonMsg))
    ELSE Response(500, ErrorPayload("Internal Server Error"))

\* the except clauses of do_POST
Handle(e) ==
    IF e.cls = "JSONDecodeError"
    THEN Response(400, ErrorPayload(InvalidJsonMsg))
    ELSE Response(500, ErrorPayload(e.text))
-----------------------------------------------------------------------------
(* Matches returned by the vector service *)

Meta(talk_id, title, speaker_1, chunk_index, text) ==
    [talk_id |-> talk_id, title |-> title, speaker_1 |-> speaker_1,
     chunk_index |-> chunk_index, text |-> text]

\* what `m.get("metadata") or {}` is when the match has no metadata
EmptyMeta == Meta(Absent, Absent, Absent, Absent, Absent)

\* hasMeta is FALSE when the match holds no metadata (or None)
Match(hasMeta, metadata, score) ==
    [hasMeta |-> hasMeta, metadata |-> metadata, score |-> score]

\* m.get("metadata") or {}
MetaOf(m) == IF m.hasMeta THEN m.metadata ELSE EmptyMeta

MFull ==
    Match(TRUE,
          Meta(PyStr("123"), PyStr("On Courage"), PyStr("Jane Doe"),
               PyNum("0"), PyStr("Courage is...")),
          PyNum("0.91"))
\* a match without metadata
MBare == Match(FALSE, EmptyMeta, PyNum("0.52"))
\* a match whose metadata lacks some keys and holds a null, and without score
MSparse ==
    Match(TRUE, Meta(PyStr("456"), PyNone, Absent, Absent, Absent), Absent)

MatchKinds == <<MFull, MBare, MSparse>>

\* the first n entries of the service's ranking
Ranked(n) == [i \in 1..n |-> MatchKinds[(i % 3) + 1]]

MatchLists ==
    UNION {[1..n -> {MFull, MBare, MSparse}] : n \in 0..MaxShort}
        \cup {Ranked(n) : n \in 0..MaxReturned}

\* results of index.query: with a "matches" key or without one
QueryResult(has, ms) == [has |-> has, matches |-> ms]
QueryResults ==
    {QueryResult(FALSE, <<>>)} \cup {QueryResult(TRUE, ms) : ms \in MatchLists}

NoResult == QueryResult(FALSE, <<>>)

\* res.get("matches", [])
MatchesOf(r) == IF r.has THEN r.matches ELSE <<>>

-----------------------------------------------------------------------------
(* build_user_prompt *)

\* one f-string block: "[i] talk_id=..., title=..., speaker=...,
\* chunk_index=...\n<text>"
RenderBlock(i, m) ==
    LET meta == MetaOf(m)
    IN  [ord |-> i,
         talk_id |-> Fmt(Get(meta, "talk_id", PyNone)),
         title |-> Fmt(Get(meta, "title", PyNone)),
         speaker |-> Fmt(Get(meta, "speaker_1", PyNone)),
         chunk_index |-> Fmt(Get(meta, "chunk_index", PyNone)),
         text |-> Fmt(Get(meta, "text", PyStr("")))]

NoContext == [literal |-> "(no context retrieved)"]

PromptIntro == "You are given several context chunks from TED talks. Use only this context to answer the question."
PromptOutro == "Now provide a concise answer based only on this context. If the answer cannot be determined from the context, respond exactly with: I don't know based on the provided TED data."

Prompt(q, context) ==
    [intro |-> PromptIntro, question |-> q, context |-> context,
     outro |-> PromptOutro]

NoPrompt == Prompt(<<>>, <<>>)

\* BuildUserPrompt without the placeholder for an empty match list
BuildUserPromptNoPlaceholder(q, ms) ==
    Prompt(q, [i \in 1..Len(ms) |-> RenderBlock(i, ms[i])])

\* BuildUserPrompt rendering the matches in reverse order
BuildUserPromptResorted(q, ms) ==
    LET blocks == [i \in 1..Len(ms) |-> RenderBlock(i, ms[Len(ms) + 1 - i])]
        context_text == IF blocks # <<>> THEN blocks ELSE <<NoContext>>
    IN  Prompt(q, context_text)

BuildUserPrompt(q, ms) ==
    LET blocks == [i \in 1..Len(ms) |-> RenderBlock(i, ms[i])]
        context_text == IF blocks # <<>> THEN blocks ELSE <<NoContext>>
    IN  Prompt(q, context_text)

-----------------------------------------------------------------------------
(* run_rag, lines 86-101: the response payload *)

Project(m) ==
    [talk_id |-> Get(MetaOf(m), "talk_id", PyNone),
     title |-> Get(MetaOf(m), "title", PyNone),
     chunk |-> Get(MetaOf(m), "text", PyStr("")),
     score |-> Get(m, "score", PyNone)]

\* RunRagPayload listing the context in reverse order
RunRagPayloadReversed(ans, ms, prompt) ==
    [response |-> ans,
     context |-> [i \in 1..Len(ms) |-> Project(ms[Len(ms) + 1 - i])],
     Augmented_prompt |-> [System |-> SYSTEM_PROMPT, User |-> prompt]]

RunRagPayload(ans, ms, prompt) ==
    [response |-> ans,
     context |-> [i \in 1..Len(ms) |-> Project(ms[i])],
     Augmented_prompt |-> [System |-> SYSTEM_PROMPT, User |-> prompt]]

\* messages=[...] of chat_completion
Messages(system_prompt, prompt) ==
    <<[role |-> "system", content |-> system_prompt],
      [role |-> "user", content |-> prompt]>>
-----------------------------------------------------------------------------
(* Client initialisation, lines 37-46 *)

NoExc == Exc("", "")

EnvValues == {PyNone, PyStr(""), PyStr("set")}
EnvNames == {"LLMOD_API_KEY", "LLMOD_BASE_URL", "PINECONE_API_KEY",
             "PINECONE_INDEX_NAME"}

\* the exception _init_openai_client raises, NoExc when it returns
InitOpenaiClient(e) ==
    IF EnvMissing(e["LLMOD_API_KEY"]) \/ EnvMissing(e["LLMOD_BASE_URL"])
    THEN Exc("RuntimeError", MissingLlmodMsg)
    ELSE NoExc

\* InitPineconeIndex without the check of the two values
InitPineconeIndexUnchecked(e) == NoExc

\* the exception _init_pinecone_index raises, NoExc when it returns
InitPineconeIndex(e) ==
    IF EnvMissing(e["PINECONE_API_KEY"]) \/ EnvMissing(e["PINECONE_INDEX_NAME"])
    THEN Exc("RuntimeError", MissingPineconeMsg)
    ELSE NoExc

-----------------------------------------------------------------------------
(* What the upstream services may do *)

\* exceptions the SDK calls raise
UpstreamErrors ==
    {Exc("APIConnectionError", "Connection error."),
     Exc("APITimeoutError", "Request timed out.")}

\* resp.data[0] / resp.choices[0] on an empty list
IndexError == Exc("IndexError", IndexErrorText)

Vectors == {"v1"}

\* message.content of the first choice: text, or None
Contents ==
    {PyStr("Courage is acting despite fear."),
     PyStr("I don't know based on the provided TED data."),
     PyNone}

\* how a _send_json call may end: all written; the header flush raises; the
\* headers are written and the body write (or json.dumps) raises
SendOutcomes == {"ok", "flush_raises", "body_raises"}

\* json.dumps(payload).encode("utf-8")
JsonDumps(payload) == [json |-> payload]

-----------------------------------------------------------------------------
(* The state machine *)

Init ==
    /\ env \in [EnvNames -> EnvValues]
    /\ request \in Requests
    /\ pc = "parse"
    /\ question = <<>>
    /\ q_vec = ""
    /\ res = NoResult
    /\ query_top_k = 0
    /\ matches = <<>>
    /\ user_prompt = NoPrompt
    /\ chat_messages = <<>>
    /\ answer = PyNone
    /\ calls = <<>>
    /\ upstream_exc = <<>>
    /\ pending = NoPending
    /\ inExcept = FALSE
    /\ sent = <<>>
    /\ wire_status = <<>>
    /\ wire_body = <<>>
    /\ escaped = FALSE

\* an exception raised inside the try block reaches an except clause, which
\* calls _send_json
Raise(e) ==
    /\ pending' = Handle(e)
    /\ inExcept' = TRUE
    /\ pc' = "send"

Called(svc, ok) == calls' = Append(calls, [svc |-> svc, ok |-> ok])

UpstreamRaise(svc, e) ==
    /\ Called(svc, FALSE)
    /\ upstream_exc' = Append(upstream_exc, [svc |-> svc, text |-> e.text])
    /\ Raise(e)

\* do_POST lines 51-58
ParseRequest ==
    /\ pc = "parse"
    /\ LET r == ParseQuestion(request)
       IN  IF r.raised
           THEN Raise(r.exc) /\ question' = question
           ELSE IF r.question = <<>>
           THEN /\ pending' = Response(400, ErrorPayload(MissingQuestionMsg))
                /\ inExcept' = FALSE
                /\ pc' = "send"
                /\ question' = r.question
           ELSE /\ question' = r.question
                /\ pc' = "init"
                /\ UNCHANGED <<pending, inExcept>>
    /\ UNCHANGED <<env, request, q_vec, res, query_top_k, matches, user_prompt,
                   chat_messages, answer, calls, upstream_exc, sent,
                   wire_status, wire_body, escaped>>

\* run_rag lines 70-71
InitClients ==
    /\ pc = "init"
    /\ LET e1 == InitOpenaiClient(env)
           e2 == InitPineconeIndex(env)
       IN  IF e1 # NoExc THEN Raise(e1)
           ELSE IF e2 # NoExc THEN Raise(e2)
           ELSE pc' = "embed" /\ UNCHANGED <<pending, inExcept>>
    /\ UNCHANGED <<env, request, question, q_vec, res, query_top_k, matches,
                   user_prompt, chat_messages, answer, calls, upstream_exc,
                   sent, wire_status, wire_body, escaped>>

\* run_rag line 74, embed_query
EmbedQuery ==
    /\ pc = "embed"
    /\ \/ \E e \in UpstreamErrors \cup {IndexError} :
            UpstreamRaise("embed", e) /\ q_vec' = q_vec
       \/ \E v \in Vectors :
            /\ Called("embed", TRUE)
            /\ q_vec' = v
            /\ pc' = "retrieve"
            /\ UNCHANGED <<upstream_exc, pending, inExcept>>
    /\ UNCHANGED <<env, request, question, res, query_top_k, matches,
                   user_prompt, chat_messages, answer, sent, wire_status,
                   wire_body, escaped>>

\* Retrieve calling the service again after a failure
RetrieveRetrying ==
    /\ pc = "retrieve"
    /\ query_top_k' = TOP_K
    /\ \/ /\ Called("retrieve", FALSE)
          /\ UNCHANGED <<pc, res, matches, upstream_exc, pending, inExcept>>
       \/ \E r \in QueryResults :
            /\ Called("retrieve", TRUE)
            /\ res' = r
            /\ matches' = MatchesOf(r)
            /\ pc' = "chat"
            /\ UNCHANGED <<upstream_exc, pending, inExcept>>
    /\ UNCHANGED <<env, request, question, q_vec, user_prompt, chat_messages,
                   answer, sent, wire_status, wire_body, escaped>>

\* run_rag line 77, retrieve
Retrieve ==
    /\ pc = "retrieve"
    /\ query_top_k' = TOP_K
    /\ \/ \E e \in UpstreamErrors :
            UpstreamRaise("retrieve", e) /\ UNCHANGED <<res, matches>>
       \/ \E r \in QueryResults :
            /\ Called("retrieve", TRUE)
            /\ res' = r
            /\ matches' = MatchesOf(r)
            /\ pc' = "chat"
            /\ UNCHANGED <<upstream_exc, pending, inExcept>>
    /\ UNCHANGED <<env, request, question, q_vec, user_prompt, chat_messages,
                   answer, sent, wire_status, wire_body, escaped>>

\* run_rag lines 80-101 and do_POST line 61 up to the _send_json call
ChatCompletion ==
    /\ pc = "chat"
    /\ user_prompt' = BuildUserPrompt(question, matches)
    /\ chat_messages' = Messages(SYSTEM_PROMPT, user_prompt')
    /\ \/ \E e \in UpstreamErrors \cup {IndexError} :
            UpstreamRaise("chat", e) /\ answer' = answer
       \/ \E c \in Contents :
            /\ Called("chat", TRUE)
            /\ answer' = c
            /\ pending' = Response(200, RunRagPayload(c, matches, user_prompt'))
            /\ inExcept' = FALSE
            /\ pc' = "send"
            /\ UNCHANGED upstream_exc
    /\ UNCHANGED <<env, request, question, q_vec, res, query_top_k, matches,
                   sent, wire_status, wire_body, escaped>>

\* _send_json, and what do_POST does when it raises: inside the try block
\* the exception reaches `except Exception`, which calls _send_json again;
\* inside an except clause nothing catches it
SendJson ==
    /\ pc = "send"
    /\ sent' = Append(sent, pending)
    /\ \E o \in SendOutcomes :
         /\ wire_status' = IF o = "flush_raises" THEN wire_status
                           ELSE Append(wire_status, pending.status)
         /\ wire_body' = IF o = "ok"
                         THEN Append(wire_body, JsonDumps(pending.payload))
                         ELSE wire_body
         /\ IF o = "ok"
            THEN pc' = "done" /\ UNCHANGED <<pending, inExcept, escaped>>
            ELSE IF inExcept
            THEN pc' = "done" /\ escaped' = TRUE /\ UNCHANGED <<pending, inExcept>>
            ELSE Raise(Exc("BrokenPipeError", BrokenPipeText)) /\ UNCHANGED escaped
    /\ UNCHANGED <<env, request, question, q_vec, res, query_top_k, matches,
                   user_prompt, chat_messages, answer, calls, upstream_exc>>

Next ==
    \/ ParseRequest
    \/ InitClients
    \/ EmbedQuery
    \/ Retrieve
    \/ ChatCompletion
    \/ SendJson

Spec == Init /\ [][Next]_vars

Done == pc = "done"

-----------------------------------------------------------------------------
(* Vocabulary of the properties.  "The response" of a request is the first *)
(* _send_json call do_POST makes: its status and the payload handed to it. *)

\* json.loads returns a value for the body
Parsable(b) == b.utf8 /\ b.syntax \in {"strict", "nan"}

\* the body is JSON in the sense of RFC 8259
ValidJson(b) == b.utf8 /\ b.syntax = "strict"

Blank(str) == \A i \in DOMAIN str : IsSpace(str[i])

\* the body parses and holds no question, or an empty or whitespace-only one
QuestionMissing(req) ==
    LET b == ReadBody(req)
    IN  /\ req.cl # "garbage"
        /\ Parsable(b)
        /\ \/ b.root.t # "dict"
           \/ ~b.root.hasQ
           \/ b.root.q.t = "str" /\ Blank(b.root.q.s)

\* the body is a JSON object whose question is text with a non-blank character
ValidQuestion(req) ==
    LET b == ReadBody(req)
    IN  /\ req.cl = "exact"
        /\ Parsable(b)
        /\ b.root.t = "dict"
        /\ b.root.hasQ
        /\ b.root.q.t = "str"
        /\ ~Blank(b.root.q.s)

EnvComplete == \A n \in EnvNames : ~EnvMissing(env[n])
SomeEnvAbsent == \E n \in EnvNames : env[n] = PyNone

Pipeline == <<"embed", "retrieve", "chat">>

\* the vector query succeeded and returned no match
ZeroMatches ==
    /\ Len(calls) >= 2
    /\ calls[2].ok
    /\ (~res.has \/ res.matches = <<>>)

-----------------------------------------------------------------------------
(* C1 *)

\* C1: every request whose body parses and whose question is empty,
\* whitespace-only or absent is answered 400 with exactly
\* {"error": "Missing 'question' field"}.
C1_MissingQuestionIs400 ==
    (Done /\ QuestionMissing(request)) =>
        /\ sent[1].status = 400
        /\ sent[1].payload = ErrorPayload(MissingQuestionMsg)

-----------------------------------------------------------------------------
(* C2 *)

\* C2: every request whose body is not valid JSON is answered 400 with
\* exactly {"error": "Invalid JSON"}, never 500 and never 200.
C2_InvalidJsonIs400 ==
    (Done /\ request.cl # "garbage" /\ ~ValidJson(ReadBody(request))) =>
        /\ sent[1].status = 400
        /\ sent[1].payload = ErrorPayload(InvalidJsonMsg)

-----------------------------------------------------------------------------
(* C3 *)

\* C3: every request with a valid non-empty question (the configuration
\* being complete and no upstream call failing) is answered 200 with a
\* `response` field that is text, never null.
C3_ResponseIsText ==
    (Done /\ ValidQuestion(request) /\ EnvComplete /\ upstream_exc = <<>>) =>
        /\ sent[1].status = 200
        /\ sent[1].payload.response.t = "str"

-----------------------------------------------------------------------------
(* C4 *)

\* the complaint run_rag raises for the environment at hand
MissingEnvComplaint ==
    IF EnvMissing(env["LLMOD_API_KEY"]) \/ EnvMissing(env["LLMOD_BASE_URL"])
    THEN MissingLlmodMsg
    ELSE MissingPineconeMsg

ConfigurationFailure ==
    /\ sent[1].status = 500
    /\ sent[1].payload = ErrorPayload(MissingEnvComplaint)
    /\ calls = <<>>

\* C4 as stated: when one of the four environment values is absent, the
\* request fails with 500 and the missing-variable complaint, and no upstream
\* call is made.
C4_Original == (Done /\ SomeEnvAbsent) => ConfigurationFailure

\* C4 amended: when one of the four environment values is absent and the
\* request carries a valid non-empty question, the request fails with 500 and
\* the missing-variable complaint, and no upstream call is made.
C4_MissingEnvIs500 ==
    (Done /\ SomeEnvAbsent /\ ValidQuestion(request)) => ConfigurationFailure

C4_Witness ==
    /\ Done
    /\ env["PINECONE_INDEX_NAME"] = PyNone
    /\ ~EnvMissing(env["LLMOD_API_KEY"])
    /\ ~EnvMissing(env["LLMOD_BASE_URL"])
    /\ ValidQuestion(request)
    /\ sent[1].payload = ErrorPayload(MissingPineconeMsg)

-----------------------------------------------------------------------------
(* C5 *)

-----------------------------------------------------------------------------
(* C6 *)

-----------------------------------------------------------------------------
(* C7 *)

PlaceholderContext == <<NoContext>>

\* C7 as stated: when retrieval returns zero matches the request completes
\* with 200, the context section of the user prompt is the placeholder, the
\* response's context list is empty and the chat service is called.
C7_Original ==
    (Done /\ ZeroMatches) =>
        /\ Len(calls) = 3
        /\ chat_messages[2].content.context = PlaceholderContext
        /\ sent[1].status = 200
        /\ sent[1].payload.context = <<>>

\* C7 amended: when retrieval returns zero matches the chat service is still
\* called, with a user prompt whose context section is the placeholder; and
\* if that call succeeds the request completes with 200 and an empty context
\* list.
C7_ZeroMatches ==
    (Done /\ ZeroMatches) =>
        /\ Len(calls) = 3
        /\ chat_messages # <<>>
        /\ chat_messages[2].content.context = PlaceholderContext
        /\ (calls[3].ok =>
              /\ sent[1].status = 200
              /\ sent[1].payload.context = <<>>
              /\ sent[1].payload.Augmented_prompt.User.context = PlaceholderContext)

C7_Witness ==
    /\ Done
    /\ ZeroMatches
    /\ ~res.has
    /\ sent[1].status = 200
    /\ sent[1].payload.context = <<>>

-----------------------------------------------------------------------------
(* C8 *)

\* the i-th context entry comes from the i-th match the service returned
OrderPreserved(context) ==
    /\ Len(context) = Len(MatchesOf(res))
    /\ \A i \in DOMAIN context : context[i] = Project(MatchesOf(res)[i])

\* C8 as stated: in every 200 response the context array has at most TOP_K
\* entries, in the order of the matches returned, whatever list the vector
\* service returns.
C8_Original ==
    \A j \in DOMAIN sent :
        sent[j].status = 200 =>
            /\ Len(sent[j].payload.context) <= TOP_K
            /\ OrderPreserved(sent[j].payload.context)

\* C8 amended: in every 200 response the context array has one entry per
\* match the vector service returned, in the same order; it has at most
\* TOP_K entries whenever the service returned no more than the top_k asked.
C8_ContextFollowsMatches ==
    \A j \in DOMAIN sent :
        sent[j].status = 200 =>
            /\ OrderPreserved(sent[j].payload.context)
            /\ query_top_k = TOP_K
            /\ (Len(MatchesOf(res)) <= query_top_k =>
                  Len(sent[j].payload.context) <= TOP_K)

C8_Witness ==
    /\ Done
    /\ sent[1].status = 200
    /\ Len(sent[1].payload.context) = TOP_K
    /\ sent[1].payload.context[1] # sent[1].payload.context[2]

-----------------------------------------------------------------------------
(* C9 *)

\* C9: in every 200 response Augmented_prompt.System and .User are the
\* contents of the two messages of the single chat call, and the i-th context
\* entry is the projection of the match rendered as block [i] of that prompt.
C9_PromptAndContextAgree ==
    \A j \in DOMAIN sent :
        sent[j].status = 200 =>
            LET p == sent[j].payload
                blocks == chat_messages[2].content.context
            IN  /\ Len(calls) = 3
                /\ Len(chat_messages) = 2
                /\ chat_messages[1] = [role |-> "system", content |-> p.Augmented_prompt.System]
                /\ chat_messages[2] = [role |-> "user", content |-> p.Augmented_prompt.User]
                /\ (p.context # <<>> => Len(blocks) = Len(p.context))
                /\ \A i \in DOMAIN p.context :
                     \E m \in {MatchesOf(res)[i]} :
                        /\ blocks[i] = RenderBlock(i, m)
                        /\ blocks[i].ord = i
                        /\ p.context[i] = Project(m)

C9_Witness ==
    /\ Done
    /\ sent[1].status = 200
    /\ Len(sent[1].payload.context) = 2
    /\ sent[1].payload.context[1] # sent[1].payload.context[2]
    /\ sent[1].payload.Augmented_prompt.User.context[2].ord = 2

-----------------------------------------------------------------------------
(* C10 *)

\* C10: every request ends with exactly one response on the connection, one
\* status line in {200, 400, 500} and one JSON body, and no exception leaves
\* do_POST.
C10_ExactlyOneResponse ==
    Done =>
        /\ Len(wire_status) = 1
        /\ wire_status[1] \in {200, 400, 500}
        /\ Len(wire_body) = 1
        /\ ~escaped
====
